---- MODULE Spec2Model ----
(***************************************************************************)
(* Model of the Bluegrey pairs-trading bot: the Kalman-filter strategy     *)
(* (build/lib/strategies/kalman_strategy.py), the risk gate                *)
(* (build/lib/src/risk.py), the order router (src/execution.py), the price *)
(* table (build/lib/src/data.py) and the live driver (src/main.py).        *)
(*                                                                         *)
(* Real numbers are exact rationals <<n, d>> (d > 0, lowest terms).  The   *)
(* z-score error / sqrt(S) is kept as the pair [err, S] and compared with  *)
(* the thresholds through its square, so no square root is approximated.   *)
(***************************************************************************)
EXTENDS Integers, Sequences, FiniteSets, TLC

VARIABLES
    cfg,          \* params of KalmanPairStrategy.__init__ (fixed after construction)
    state_mean,   \* KalmanPairStrategy.state_mean  <<intercept, slope>>
    state_cov,    \* KalmanPairStrategy.state_cov   2x2
    state_finite, \* FALSE once a division by S = 0 has made the state inf/nan
    position,     \* KalmanPairStrategy.position    0, 1, -1
    n_ticks,      \* number of ticks fed so far
    last,         \* observation of the most recent strategy.on_tick call
    entry_signal, \* the entry signal that opened the position now held (None when flat)
    hist,         \* one entry per synthetic tick: z-score, position after, emission
    dm_data,      \* DataManager.data, row 'last': the known prices by key
    placed,       \* the orders handed to ib.placeOrder so far
    gate,         \* observation of the most recent RiskManager.check / execute_signal call
    live,         \* observation of the most recent TradingEngine.on_tick call
    clock,        \* wall-clock seconds, and the times execute_signal was called at
    store,        \* DataStore: the stored close series of each symbol
    bt,           \* BacktestEngine: its strategy, results and what run() did
    loop,         \* the event loop of ib.run(): pending tickers, callbacks in progress
    feed          \* observation of the most recent DataManager.on_tick call

strategy_vars == <<state_mean, state_cov, state_finite, position, last, entry_signal>>

backtest_vars == <<store, bt>>

loop_vars == <<loop, feed>>

driver_vars == <<dm_data, placed, gate, live, clock, backtest_vars, loop_vars>>

vars == <<cfg, strategy_vars, n_ticks, hist, driver_vars>>

----------------------------------------------------------------------------
(* Bounds *)

MaxTicks == 3

MaxDeviations == 5

MaxLiveTicks == 4

MaxPlaced == 3

MaxTime == 3

MaxClock == 100

----------------------------------------------------------------------------
(* Exact rational arithmetic *)

RECURSIVE GCD(_, _)
GCD(a, b) == IF b = 0 THEN a ELSE GCD(b, a % b)

Abs(n) == IF n < 0 THEN -n ELSE n

Norm(n, d) == LET g == GCD(Abs(n), d) IN <<n \div g, d \div g>>

Rat(n) == <<n, 1>>

RNeg(a) == <<-a[1], a[2]>>

RAbs(a) == <<Abs(a[1]), a[2]>>

RAdd(a, b) ==
    LET g == GCD(a[2], b[2])
    IN  Norm(a[1] * (b[2] \div g) + b[1] * (a[2] \div g), (a[2] \div g) * b[2])

RSub(a, b) == RAdd(a, RNeg(b))

RMul(a, b) ==
    LET g1 == GCD(Abs(a[1]), b[2])
        g2 == GCD(Abs(b[1]), a[2])
    IN  Norm((a[1] \div g1) * (b[1] \div g2), (a[2] \div g2) * (b[2] \div g1))

RInv(a) == IF a[1] > 0 THEN <<a[2], a[1]>> ELSE <<-a[2], -a[1]>>

RDiv(a, b) == RMul(a, RInv(b))

RLt(a, b) ==
    LET g == GCD(a[2], b[2])
    IN  a[1] * (b[2] \div g) < b[1] * (a[2] \div g)

RLe(a, b) == ~RLt(b, a)

\* Python int(): truncation toward zero
RInt(a) == IF a[1] >= 0 THEN a[1] \div a[2] ELSE -((-a[1]) \div a[2])

----------------------------------------------------------------------------
(* z_score = error / sqrt(S), S > 0, kept as [err, S] *)

NoZ == [err |-> Rat(0), S |-> Rat(0)]

ZScore(error, S) == [err |-> error, S |-> S]

ZSquare(z) == RDiv(RMul(z.err, z.err), z.S)

\* z < t
ZLt(z, t) ==
    IF t[1] > 0 THEN z.err[1] < 0 \/ RLt(ZSquare(z), RMul(t, t))
    ELSE IF t[1] = 0 THEN z.err[1] < 0
    ELSE z.err[1] < 0 /\ RLt(RMul(t, t), ZSquare(z))

\* z > t
ZGt(z, t) == ZLt(ZScore(RNeg(z.err), z.S), RNeg(t))

\* abs(z) < t
ZAbsLt(z, t) == t[1] > 0 /\ RLt(ZSquare(z), RMul(t, t))

----------------------------------------------------------------------------
(* 2-vectors and 2x2 matrices of rationals (numpy) *)

Dot(u, v) == RAdd(RMul(u[1], v[1]), RMul(u[2], v[2]))

MatVec(A, v) == <<Dot(A[1], v), Dot(A[2], v)>>

Outer(u, v) == << <<RMul(u[1], v[1]), RMul(u[1], v[2])>>,
                  <<RMul(u[2], v[1]), RMul(u[2], v[2])>> >>

MatMul(A, B) ==
    [i \in 1..2 |-> [k \in 1..2 |->
        RAdd(RMul(A[i][1], B[1][k]), RMul(A[i][2], B[2][k]))]]

MatAdd(A, B) == [i \in 1..2 |-> [k \in 1..2 |-> RAdd(A[i][k], B[i][k])]]

MatSub(A, B) == [i \in 1..2 |-> [k \in 1..2 |-> RSub(A[i][k], B[i][k])]]

VecAdd(u, v) == <<RAdd(u[1], v[1]), RAdd(u[2], v[2])>>

VecScale(u, a) == <<RMul(u[1], a), RMul(u[2], a)>>

----------------------------------------------------------------------------
(* StrategySignal (strategies/base.py) *)

NoMeta == [z_score |-> NoZ, beta |-> Rat(0), predicted_y |-> Rat(0), error |-> Rat(0)]

\* Python None, as a value of the same shape as a signal
None == [py_type |-> "None", signal_type |-> "None", orders |-> <<>>, meta |-> NoMeta]

StrategySignal(signal_type) ==
    [py_type |-> "StrategySignal", signal_type |-> signal_type, orders |-> <<>>,
     meta |-> NoMeta]

\* a plain string handed over where a signal is expected
Str(text) == [py_type |-> "str", signal_type |-> text, orders |-> <<>>, meta |-> NoMeta]

add_order(signal, contract, action, qty, order_type) ==
    [signal EXCEPT !.orders =
        Append(@, [contract |-> contract, action |-> action, qty |-> qty,
                   type |-> order_type])]

----------------------------------------------------------------------------
(* KalmanPairStrategy (build/lib/strategies/kalman_strategy.py) *)

y_key == "AMZN_STK"
x_key == "TSLA_STK"

\* self.instruments: the contract of a key is identified with the key
instruments == [k \in {y_key, x_key} |-> k]

\* __init__: the values the constructor gives the filter
InitStateMean == <<Rat(0), Rat(0)>>
InitStateCov  == << <<Rat(1), Rat(1)>>, <<Rat(1), Rat(1)>> >>
InitPosition  == 0

Q(c) == << <<c.delta, Rat(0)>>, <<Rat(0), c.delta>> >>

\* Posterior, but the covariance loses K (x) H instead of (K (x) H) P
Posterior_OuterOnly(state_mean_prior, state_cov_prior, H, inn, K) ==
    [y_hat |-> inn.y_hat, error |-> inn.error, S |-> inn.S, finite |-> TRUE,
     state_mean |-> VecAdd(state_mean_prior, VecScale(K, inn.error)),
     state_cov  |-> MatSub(state_cov_prior, Outer(K, H))]

\* Posterior (lines 81-86), K being the Kalman gain
Posterior(state_mean_prior, state_cov_prior, H, inn, K) ==
    [y_hat |-> inn.y_hat, error |-> inn.error, S |-> inn.S, finite |-> TRUE,
     state_mean |-> VecAdd(state_mean_prior, VecScale(K, inn.error)),
     state_cov  |-> MatSub(state_cov_prior, MatMul(Outer(K, H), state_cov_prior))]

\* Kalman gain (line 79); numpy does not raise on S = 0 but yields inf/nan
Gain(mean, cov, state_mean_prior, state_cov_prior, H, inn) ==
    IF inn.S[1] = 0
    THEN [y_hat |-> inn.y_hat, error |-> inn.error, S |-> inn.S, finite |-> FALSE,
          state_mean |-> mean, state_cov |-> cov]
    ELSE Posterior(state_mean_prior, state_cov_prior, H, inn,
                   <<RDiv(inn.PHt[1], inn.S), RDiv(inn.PHt[2], inn.S)>>)

\* Innovation and its variance (lines 69-76); PHt is np.dot(state_cov_prior, H.T)
Innovation(c, state_mean_prior, H, y_price, PHt) ==
    [y_hat |-> Dot(H, state_mean_prior),
     error |-> RSub(y_price, Dot(H, state_mean_prior)),
     PHt   |-> PHt,
     S     |-> RAdd(Dot(H, PHt), c.R)]

\* Observation step (lines 64-86)
Observation(c, mean, cov, state_mean_prior, state_cov_prior, H, y_price) ==
    Gain(mean, cov, state_mean_prior, state_cov_prior, H,
         Innovation(c, state_mean_prior, H, y_price, MatVec(state_cov_prior, H)))

\* Steps 2 and 3 of on_tick: prediction (lines 61-62), then observation/update
KalmanUpdate(c, mean, cov, y_price, x_price) ==
    Observation(c, mean, cov, mean, MatAdd(cov, Q(c)), <<Rat(1), x_price>>, y_price)

\* the hedge quantity rounded half up instead of truncated
hedge_qty_RoundHalfUp(c, current_beta) ==
    RInt(RAdd(RMul(Rat(c.qty), RAbs(current_beta)), <<1, 2>>))

hedge_qty(c, current_beta) == RInt(RMul(Rat(c.qty), RAbs(current_beta)))

\* the three conditions of step 5
\* z_score <= -entry_threshold
EntryLongCondition_Inclusive(c, z_score) == ~ZGt(z_score, RNeg(c.entry_threshold))

EntryLongCondition(c, z_score) == ZLt(z_score, RNeg(c.entry_threshold))

EntryShortCondition(c, z_score) == ZGt(z_score, c.entry_threshold)

ExitCondition_NoHysteresis(c, z_score) == ZAbsLt(z_score, c.entry_threshold)

ExitCondition(c, z_score) == ZAbsLt(z_score, c.exit_threshold)

\* the signals built in step 5
EntryLongSignal_Reversed(c, hq) ==
    add_order(add_order(StrategySignal("ENTRY_LONG_SPREAD"),
                        instruments[y_key], "SELL", c.qty, "MKT"),
              instruments[x_key], "BUY", hq, "MKT")

EntryLongSignal(c, hq) ==
    add_order(add_order(StrategySignal("ENTRY_LONG_SPREAD"),
                        instruments[y_key], "BUY", c.qty, "MKT"),
              instruments[x_key], "SELL", hq, "MKT")

EntryShortSignal(c, hq) ==
    add_order(add_order(StrategySignal("ENTRY_SHORT_SPREAD"),
                        instruments[y_key], "SELL", c.qty, "MKT"),
              instruments[x_key], "BUY", hq, "MKT")

ExitSignal_SameSides(c, pos, hq) ==
    LET action_y == IF pos = 1 THEN "BUY" ELSE "SELL"
        action_x == IF pos = 1 THEN "SELL" ELSE "BUY"
    IN  add_order(add_order(StrategySignal("EXIT_ALL"),
                            instruments[y_key], action_y, c.qty, "MKT"),
                  instruments[x_key], action_x, hq, "MKT")

ExitSignal(c, pos, hq) ==
    LET action_y == IF pos = 1 THEN "SELL" ELSE "BUY"
        action_x == IF pos = 1 THEN "BUY" ELSE "SELL"
    IN  add_order(add_order(StrategySignal("EXIT_ALL"),
                            instruments[y_key], action_y, c.qty, "MKT"),
                  instruments[x_key], action_x, hq, "MKT")

\* LogicExecution, but a held position is reversed in one tick when the
\* opposite entry condition holds
LogicExecution_Reversing(c, pos, z_score, current_beta, y_hat, error) ==
    LET meta == [z_score |-> z_score, beta |-> current_beta,
                 predicted_y |-> y_hat, error |-> error]
        hq   == hedge_qty(c, current_beta)
    IN  IF pos # 1 /\ EntryLongCondition(c, z_score)
        THEN [position |-> 1,
              signal |-> [EntryLongSignal(c, hq) EXCEPT !.meta = meta]]
        ELSE IF pos # -1 /\ EntryShortCondition(c, z_score)
        THEN [position |-> -1,
              signal |-> [EntryShortSignal(c, hq) EXCEPT !.meta = meta]]
        ELSE IF pos # 0 /\ ExitCondition(c, z_score)
        THEN [position |-> 0,
              signal |-> [ExitSignal(c, pos, hq) EXCEPT !.meta = meta]]
        ELSE [position |-> pos, signal |-> None]

\* LogicExecution, but the exit branch does not reset self.position
LogicExecution_ExitKeepsPosition(c, pos, z_score, current_beta, y_hat, error) ==
    LET meta == [z_score |-> z_score, beta |-> current_beta,
                 predicted_y |-> y_hat, error |-> error]
        hq   == hedge_qty(c, current_beta)
    IN  IF pos = 0
        THEN IF EntryLongCondition(c, z_score)
             THEN [position |-> 1,
                   signal |-> [EntryLongSignal(c, hq) EXCEPT !.meta = meta]]
             ELSE IF EntryShortCondition(c, z_score)
             THEN [position |-> -1,
                   signal |-> [EntryShortSignal(c, hq) EXCEPT !.meta = meta]]
             ELSE [position |-> pos, signal |-> None]
        ELSE IF ExitCondition(c, z_score)
             THEN [position |-> pos,
                   signal |-> [ExitSignal(c, pos, hq) EXCEPT !.meta = meta]]
             ELSE [position |-> pos, signal |-> None]

\* LogicExecution, but nothing is emitted when the hedge quantity is 0
LogicExecution_SuppressZeroHedge(c, pos, z_score, current_beta, y_hat, error) ==
    LET meta == [z_score |-> z_score, beta |-> current_beta,
                 predicted_y |-> y_hat, error |-> error]
        hq   == hedge_qty(c, current_beta)
    IN  IF hq = 0
        THEN [position |-> pos, signal |-> None]
        ELSE IF pos = 0
        THEN IF EntryLongCondition(c, z_score)
             THEN [position |-> 1,
                   signal |-> [EntryLongSignal(c, hq) EXCEPT !.meta = meta]]
             ELSE IF EntryShortCondition(c, z_score)
             THEN [position |-> -1,
                   signal |-> [EntryShortSignal(c, hq) EXCEPT !.meta = meta]]
             ELSE [position |-> pos, signal |-> None]
        ELSE IF ExitCondition(c, z_score)
             THEN [position |-> 0,
                   signal |-> [ExitSignal(c, pos, hq) EXCEPT !.meta = meta]]
             ELSE [position |-> pos, signal |-> None]

\* Steps 5 and 6 of on_tick: entry/exit logic and metadata
LogicExecution(c, pos, z_score, current_beta, y_hat, error) ==
    LET meta == [z_score |-> z_score, beta |-> current_beta,
                 predicted_y |-> y_hat, error |-> error]
        hq   == hedge_qty(c, current_beta)
    IN  IF pos = 0
        THEN IF EntryLongCondition(c, z_score)
             THEN [position |-> 1,
                   signal |-> [EntryLongSignal(c, hq) EXCEPT !.meta = meta]]
             ELSE IF EntryShortCondition(c, z_score)
             THEN [position |-> -1,
                   signal |-> [EntryShortSignal(c, hq) EXCEPT !.meta = meta]]
             ELSE [position |-> pos, signal |-> None]
        ELSE IF ExitCondition(c, z_score)
             THEN [position |-> 0,
                   signal |-> [ExitSignal(c, pos, hq) EXCEPT !.meta = meta]]
             ELSE [position |-> pos, signal |-> None]

\* what on_tick yields when it returns before touching anything
Untouched(mean, cov, finite, pos) ==
    [state_mean |-> mean, state_cov |-> cov, finite |-> finite,
     position |-> pos, signal |-> None, has_S |-> FALSE, has_z |-> FALSE,
     z_score |-> NoZ, S |-> Rat(0)]

\* what on_tick yields when it reaches step 6
Decided(k, z_score, l) ==
    [state_mean |-> k.state_mean, state_cov |-> k.state_cov,
     finite |-> TRUE, position |-> l.position,
     signal |-> l.signal, has_S |-> TRUE, has_z |-> TRUE,
     z_score |-> z_score, S |-> k.S]

\* Normalization, but the hedge ratio is the slope from before this tick's update
Normalization_PriorBeta(c, mean, cov, pos, k) ==
    IF ~k.finite
    THEN [Untouched(mean, cov, FALSE, pos) EXCEPT !.has_S = TRUE, !.S = k.S]
    ELSE IF RLe(k.S, Rat(0))
    THEN [Untouched(k.state_mean, k.state_cov, TRUE, pos)
             EXCEPT !.has_S = TRUE, !.S = k.S]
    ELSE Decided(k, ZScore(k.error, k.S),
                 LogicExecution(c, pos, ZScore(k.error, k.S), mean[2],
                                k.y_hat, k.error))

\* Steps 4 to 6 of on_tick, k being the outcome of steps 2 and 3
Normalization(c, mean, cov, pos, k) ==
    IF ~k.finite
    THEN \* division by S = 0: the state is inf/nan, then line 91 returns
         [Untouched(mean, cov, FALSE, pos) EXCEPT !.has_S = TRUE, !.S = k.S]
    ELSE IF RLe(k.S, Rat(0))
    THEN [Untouched(k.state_mean, k.state_cov, TRUE, pos)
             EXCEPT !.has_S = TRUE, !.S = k.S]
    ELSE Decided(k, ZScore(k.error, k.S),
                 LogicExecution(c, pos, ZScore(k.error, k.S), k.state_mean[2],
                                k.y_hat, k.error))

\* Steps 2 to 6 of on_tick, both prices being present
FilterAndDecide(c, mean, cov, finite, pos, y_price, x_price) ==
    IF ~finite
    THEN \* inf/nan state: S is inf/nan, so either S <= 0 or z_score is nan
         Untouched(mean, cov, finite, pos)
    ELSE Normalization(c, mean, cov, pos, KalmanUpdate(c, mean, cov, y_price, x_price))

\* on_tick, but a tick with a missing price still runs the prediction step
on_tick_PredictOnMissing(c, mean, cov, finite, pos, data) ==
    IF y_key \notin DOMAIN data \/ x_key \notin DOMAIN data
    THEN Untouched(mean, MatAdd(cov, Q(c)), finite, pos)
    ELSE FilterAndDecide(c, mean, cov, finite, pos, data[y_key], data[x_key])

\* The whole of on_tick as a function of the strategy's state and the tick.
\* data is a function from the columns present in the tick to their prices.
on_tick(c, mean, cov, finite, pos, data) ==
    IF y_key \notin DOMAIN data \/ x_key \notin DOMAIN data
    THEN Untouched(mean, cov, finite, pos)
    ELSE FilterAndDecide(c, mean, cov, finite, pos, data[y_key], data[x_key])

----------------------------------------------------------------------------
(* RiskManager (build/lib/src/risk.py) *)

allowed_signals == {"LONG_SPREAD", "SHORT_SPREAD", "EXIT"}

\* RiskManager.check without the allow-list test
check_NoAllowList(signal) ==
    ~(signal.py_type = "None" \/ (signal.py_type = "str" /\ signal.signal_type = "HOLD"))

\* RiskManager.check.  signal == "HOLD" and signal in allowed_signals compare
\* the argument itself with strings: a StrategySignal (which defines no
\* __eq__) equals none of them.
check(signal) ==
    IF signal.py_type = "None" \/ (signal.py_type = "str" /\ signal.signal_type = "HOLD")
    THEN FALSE
    ELSE IF ~(signal.py_type = "str" /\ signal.signal_type \in allowed_signals)
    THEN FALSE
    ELSE TRUE

----------------------------------------------------------------------------
(* ExecutionHandler (src/execution.py) *)

\* the order handed to ib.placeOrder for one order instruction
MarketOrder(order_instruction) ==
    [contract |-> order_instruction.contract, action |-> order_instruction.action,
     qty |-> order_instruction.qty]

RECURSIVE PlaceAll(_)
PlaceAll(orders) ==
    IF orders = <<>> THEN <<>>
    ELSE IF Head(orders).type = "MKT"
    THEN <<MarketOrder(Head(orders))>> \o PlaceAll(Tail(orders))
    ELSE PlaceAll(Tail(orders))

\* execute_signal: the sequence of ib.placeOrder calls it makes
execute_signal(signal) ==
    IF signal.py_type = "None" \/ signal.orders = <<>>
    THEN <<>>
    ELSE PlaceAll(signal.orders)

InitGate ==
    [op |-> "none", signal |-> None, result |-> FALSE, sent |-> <<>>,
     pre_placed |-> <<>>]

----------------------------------------------------------------------------
(* DataManager (build/lib/src/data.py) *)

\* a table or tick without any price
NoTick == [k \in {} |-> Rat(0)]

\* conid_to_key after subscribe(): conId 1 is leg 1, conId 2 is leg 2
conid_to_key == [id \in {1, 2} |-> IF id = 1 THEN y_key ELSE x_key]

\* a ticker: its contract's conId and what marketPrice() returns
Ticker(conId, kind, price) == [conId |-> conId, kind |-> kind, price |-> price]

\* the robust check without the sign test
RobustCheck_AnyNumber(t) == t.kind = "num"

\* price is not None and not np.isnan(price) and price > 0
RobustCheck(t) == t.kind = "num" /\ RLt(Rat(0), t.price)

Stored(t) == t.conId \in DOMAIN conid_to_key /\ RobustCheck(t)

\* self.data.loc['last', key] = price
SetPrice(d, key, price) ==
    [k \in DOMAIN d \cup {key} |-> IF k = key THEN price ELSE d[k]]

Ingest(d, t) == IF Stored(t) THEN SetPrice(d, conid_to_key[t.conId], t.price) ELSE d

HasUpdates(b, ing) == [ing EXCEPT !.has_updates = b \/ @]

\* DataManager.on_tick: the table after the tickers and the returned flag
RECURSIVE DataManager_on_tick(_, _)
DataManager_on_tick(d, tickers) ==
    IF tickers = <<>>
    THEN [data |-> d, has_updates |-> FALSE]
    ELSE HasUpdates(Stored(Head(tickers)),
                    DataManager_on_tick(Ingest(d, Head(tickers)), Tail(tickers)))

\* is_ready, but one known price is enough
is_ready_AnyPrice(d) == DOMAIN d # {}

is_ready(d) == DOMAIN d # {} /\ DOMAIN d = DOMAIN instruments

get_latest_prices(d) == d

----------------------------------------------------------------------------
(* TradingEngine (src/main.py), its strategy being a KalmanPairStrategy *)

\* time.sleep(60) after execute_signal
CooldownSeconds == 60

\* Step 5 of TradingEngine.on_tick without the risk check
RiskAndExecution_Unchecked(signal) ==
    IF signal.py_type # "None" /\ signal.orders # <<>>
    THEN [checked |-> TRUE, check_result |-> check(signal), executed |-> TRUE,
          sent |-> execute_signal(signal), slept |-> CooldownSeconds]
    ELSE [checked |-> FALSE, check_result |-> FALSE, executed |-> FALSE,
          sent |-> <<>>, slept |-> 0]

\* Step 5 of TradingEngine.on_tick without the sleep after execute_signal
RiskAndExecution_NoCooldown(signal) ==
    IF signal.py_type # "None" /\ signal.orders # <<>>
    THEN IF check(signal)
         THEN [checked |-> TRUE, check_result |-> TRUE, executed |-> TRUE,
               sent |-> execute_signal(signal), slept |-> 0]
         ELSE [checked |-> TRUE, check_result |-> FALSE, executed |-> FALSE,
               sent |-> <<>>, slept |-> 0]
    ELSE [checked |-> FALSE, check_result |-> FALSE, executed |-> FALSE,
          sent |-> <<>>, slept |-> 0]

\* Step 5 of TradingEngine.on_tick (lines 111, 116-121): which calls are made
\* for the signal the strategy returned, and the orders that reach placeOrder
RiskAndExecution(signal) ==
    IF signal.py_type # "None" /\ signal.orders # <<>>
    THEN IF check(signal)
         THEN [checked |-> TRUE, check_result |-> TRUE, executed |-> TRUE,
               sent |-> execute_signal(signal), slept |-> CooldownSeconds]
         ELSE [checked |-> TRUE, check_result |-> FALSE, executed |-> FALSE,
               sent |-> <<>>, slept |-> 0]
    ELSE [checked |-> FALSE, check_result |-> FALSE, executed |-> FALSE,
          sent |-> <<>>, slept |-> 0]

\* Step 4 of TradingEngine.on_tick (lines 111-114): is log_tick called
Telemetry(signal) == signal.py_type # "None"

InitLive ==
    [called |-> FALSE, has_new_data |-> FALSE, ready |-> FALSE,
     strategy_called |-> FALSE, signal |-> None, logged |-> FALSE,
     log_prices |-> NoTick, log_meta |-> NoMeta, checked |-> FALSE,
     check_result |-> FALSE, executed |-> FALSE, sent |-> <<>>,
     prev_rejected |-> FALSE]

\* the event loop when the engine starts: nothing pending, no callback running
InitLoop ==
    [pc |-> "idle", pending |-> <<>>, active |-> 0, snap_data |-> NoTick,
     snap_placed |-> <<>>]

\* no DataManager.on_tick call yet
InitFeed ==
    [op |-> "none", tickers |-> <<>>, pre_data |-> NoTick, pre_ready |-> FALSE,
     has_updates |-> FALSE]

\* the clock when the engine starts; no execute_signal call yet
InitClock == [now |-> 0, executions |-> <<>>]

\* the clock after a callback that called execute_signal (or not) at clock.now
\* and then slept
Sleep(c, x) ==
    [now |-> c.now + x.slept,
     executions |-> IF x.executed THEN Append(c.executions, c.now) ELSE c.executions]

----------------------------------------------------------------------------
(* DataStore (src/store.py) and BacktestEngine (build/lib/src/backtester.py) *)

\* a close series without any row
NoSeries == [t \in {} |-> Rat(0)]

\* a library without any symbol
NoStore == [k \in {} |-> NoSeries]

\* DataStore.load: None when the key is not a symbol of the library, else the
\* rows of the stored series from start_date to end_date
load(st, key, start_date, end_date) ==
    IF key \notin DOMAIN st
    THEN [found |-> FALSE, df |-> NoSeries]
    ELSE [found |-> TRUE,
          df |-> [t \in {u \in DOMAIN st[key] : start_date <= u /\ u <= end_date}
                     |-> st[key][t]]]

\* run, step 1: the load of every key of self.instruments
LoadAll(st, start_date, end_date) ==
    [key \in DOMAIN instruments |-> load(st, key, start_date, end_date)]

\* the union of the series' indexes, ascending
RECURSIVE Ascending(_)
Ascending(S) ==
    IF S = {} THEN <<>>
    ELSE <<CHOOSE t \in S : \A u \in S : t <= u>>
         \o Ascending(S \ {CHOOSE t \in S : \A u \in S : t <= u})

\* one row of pd.DataFrame(dfs): the keys whose series has the timestamp
\* carry its value, the others are NaN (absent)
FrameRow(dfs, t) ==
    [time |-> t,
     vals |-> [key \in {k \in DOMAIN dfs : t \in DOMAIN dfs[k].df} |-> dfs[key].df[t]]]

\* pd.DataFrame(dfs): outer join of the series on their timestamps
DataFrame(dfs) ==
    [i \in 1..Cardinality(UNION {DOMAIN dfs[k].df : k \in DOMAIN dfs}) |->
        FrameRow(dfs, Ascending(UNION {DOMAIN dfs[k].df : k \in DOMAIN dfs})[i])]

\* a row with its NaN cells replaced by the values carried from above
Filled(row, carry) ==
    [row EXCEPT !.vals = [key \in DOMAIN carry \cup DOMAIN row.vals |->
                             IF key \in DOMAIN row.vals THEN row.vals[key]
                             ELSE carry[key]]]

\* the frame left as it is: no value is carried into a NaN cell
ffill_NoCarry(rows, carry) == rows

\* .fillna(method='ffill')
RECURSIVE ffill(_, _)
ffill(rows, carry) ==
    IF rows = <<>> THEN <<>>
    ELSE <<Filled(Head(rows), carry)>>
         \o ffill(Tail(rows), Filled(Head(rows), carry).vals)

\* .dropna(): only the rows without a NaN are kept
RECURSIVE dropna(_)
dropna(rows) ==
    IF rows = <<>> THEN <<>>
    ELSE IF DOMAIN Head(rows).vals = DOMAIN instruments
    THEN <<Head(rows)>> \o dropna(Tail(rows))
    ELSE dropna(Tail(rows))

\* line 46: the synchronized timeline
Universe(dfs) == dropna(ffill(DataFrame(dfs), NoTick))

\* _record_trade, but only the first order of the signal is logged
record_trade_FirstOrderOnly(timestamp, signal, prices) ==
    [i \in 1..1 |->
        [time |-> timestamp, signal |-> signal.signal_type,
         asset |-> signal.orders[i].contract, action |-> signal.orders[i].action,
         qty |-> signal.orders[i].qty, price |-> prices[signal.orders[i].contract],
         meta |-> signal.meta]]

\* _record_trade: one result row per order of the signal
record_trade(timestamp, signal, prices) ==
    [i \in 1..Len(signal.orders) |->
        [time |-> timestamp, signal |-> signal.signal_type,
         asset |-> signal.orders[i].contract, action |-> signal.orders[i].action,
         qty |-> signal.orders[i].qty, price |-> prices[signal.orders[i].contract],
         meta |-> signal.meta]]

\* the strategy instance the engine constructs in __init__
InitBtStrategy ==
    [state_mean |-> InitStateMean, state_cov |-> InitStateCov, finite |-> TRUE,
     position |-> InitPosition]

InitBacktest ==
    [outcome |-> "not run", start_date |-> 0, end_date |-> 0, universe |-> <<>>,
     trace |-> <<>>, results |-> <<>>, strategy |-> InitBtStrategy]

RECURSIVE Replay(_, _, _, _)

\* one pass of the event loop, but the next row meets a fresh strategy
ReplayRow_FreshStrategy(c, rows, acc, r) ==
    Replay(c, InitBtStrategy, Tail(rows),
           [trace |-> Append(acc.trace, [time |-> Head(rows).time,
                                         row |-> Head(rows).vals,
                                         signal |-> r.signal]),
            results |-> acc.results])

\* one pass of the event loop (lines 55-62), r being what on_tick yields
ReplayRow(c, rows, acc, r) ==
    Replay(c,
           [state_mean |-> r.state_mean, state_cov |-> r.state_cov,
            finite |-> r.finite, position |-> r.position],
           Tail(rows),
           [trace |-> Append(acc.trace, [time |-> Head(rows).time,
                                         row |-> Head(rows).vals,
                                         signal |-> r.signal]),
            results |-> IF r.signal.py_type # "None"
                        THEN acc.results
                             \o record_trade(Head(rows).time, r.signal, Head(rows).vals)
                        ELSE acc.results])

\* the event loop: the rows of the universe go to the strategy in order
Replay(c, s, rows, acc) ==
    IF rows = <<>>
    THEN [strategy |-> s, trace |-> acc.trace, results |-> acc.results]
    ELSE ReplayRow(c, rows, acc,
                   on_tick(c, s.state_mean, s.state_cov, s.finite, s.position,
                           Head(rows).vals))

\* run after the event loop: the results are returned as a DataFrame
Complete(b, universe, done) ==
    [b EXCEPT !.outcome = "return DataFrame", !.universe = universe,
              !.trace = done.trace, !.results = done.results,
              !.strategy = done.strategy]

\* run from line 46 on
Aligned(c, b, universe) ==
    IF universe = <<>>
    THEN [b EXCEPT !.outcome = "return None"]
    ELSE Complete(b, universe,
                  Replay(c, b.strategy, universe,
                         [trace |-> <<>>, results |-> b.results]))

\* run after the loads of step 1
Loaded(c, b, dfs) ==
    IF \E key \in DOMAIN dfs : ~dfs[key].found
    THEN [b EXCEPT !.outcome = "return None"]
    ELSE Aligned(c, b, Universe(dfs))

\* BacktestEngine.run(start_date, end_date): the engine afterwards
run(c, b, st, start_date, end_date) ==
    Loaded(c, [b EXCEPT !.start_date = start_date, !.end_date = end_date],
           LoadAll(st, start_date, end_date))

----------------------------------------------------------------------------
(* The strategy fed ticks directly *)

\* params accepted by __init__ (no validation is performed there)
Config(entry, exit, qty, delta, r) ==
    [entry_threshold |-> entry, exit_threshold |-> exit, qty |-> qty,
     delta |-> delta, R |-> r]

DefaultThresholds == Config(Rat(2), <<1, 2>>, 10, Rat(1), Rat(1))

StrategyConfigs ==
    { DefaultThresholds,
      Config(<<1, 2>>, Rat(2), 10, Rat(1), Rat(1)),      \* exit_z >= entry_z
      Config(Rat(2), <<1, 2>>, 10, Rat(1), Rat(-7)),     \* R < 0: S < 0 on a first tick
      Config(Rat(2), <<1, 2>>, 10, Rat(1), Rat(-6)),     \* R < 0: S = 0 on a first tick
      Config(Rat(2), <<1, 2>>, 1, Rat(1), Rat(1)) }      \* base_qty = 1

YPrices == {Rat(1), Rat(7)}
XPrices == {Rat(1), Rat(2)}

\* the configurations of the strategy the two drivers are compared under
BacktestConfigs == {DefaultThresholds}

\* ticks: both prices, or a required column missing
Ticks ==
    { [k \in {y_key, x_key} |-> IF k = y_key THEN y ELSE x] : y \in YPrices, x \in XPrices }
    \cup { [k \in {y_key} |-> y] : y \in YPrices }
    \cup { [k \in {x_key} |-> x] : x \in XPrices }

InitLast ==
    [op |-> "none", data |-> NoTick, pre_position |-> InitPosition,
     pre_mean |-> InitStateMean, pre_cov |-> InitStateCov, pre_finite |-> TRUE,
     pre_entry |-> None,
     has_S |-> FALSE, has_z |-> FALSE, z_score |-> NoZ, S |-> Rat(0),
     signal |-> None]

InitStrategy ==
    /\ state_mean = InitStateMean
    /\ state_cov = InitStateCov
    /\ state_finite = TRUE
    /\ position = InitPosition
    /\ n_ticks = 0
    /\ last = InitLast
    /\ entry_signal = None
    /\ hist = <<>>
    /\ dm_data = NoTick
    /\ placed = <<>>
    /\ gate = InitGate
    /\ live = InitLive
    /\ clock = InitClock
    /\ store = NoStore
    /\ bt = InitBacktest
    /\ loop = InitLoop
    /\ feed = InitFeed

Init ==
    /\ cfg \in StrategyConfigs
    /\ InitStrategy

IsEntry(signal) == signal.signal_type \in {"ENTRY_LONG_SPREAD", "ENTRY_SHORT_SPREAD"}

\* what an observer of a call records: the state before it and what it returned
Observe(op, data, r) ==
    /\ last' = [op |-> op, data |-> data, pre_position |-> position,
                pre_mean |-> state_mean, pre_cov |-> state_cov,
                pre_finite |-> state_finite, pre_entry |-> entry_signal,
                has_S |-> r.has_S, has_z |-> r.has_z,
                z_score |-> r.z_score, S |-> r.S, signal |-> r.signal]
    /\ entry_signal' = IF IsEntry(r.signal) THEN r.signal
                       ELSE IF r.position = 0 THEN None ELSE entry_signal

\* the strategy's fields after a call of on_tick that yielded r
Assign(r) ==
    /\ state_mean' = r.state_mean
    /\ state_cov' = r.state_cov
    /\ state_finite' = r.finite
    /\ position' = r.position

\* self.strategy.on_tick(data)
CallOnTick(data) ==
    /\ Assign(on_tick(cfg, state_mean, state_cov, state_finite, position, data))
    /\ Observe("on_tick", data,
               on_tick(cfg, state_mean, state_cov, state_finite, position, data))

StrategyTick ==
    /\ n_ticks < MaxTicks
    /\ \E data \in Ticks : CallOnTick(data)
    /\ n_ticks' = n_ticks + 1
    /\ UNCHANGED <<cfg, hist, driver_vars>>

Next == StrategyTick

Spec == Init /\ [][Next]_vars

----------------------------------------------------------------------------
(* The entry/exit logic fed synthetic deviation scores *)

Dev(tenths) == Norm(tenths, 10)

Deviations == { Dev(t) : t \in {-25, -10, 0, 1, 3, 10, 25} }

SMConfigs == { DefaultThresholds, Config(Rat(1), Rat(1), 10, Rat(1), Rat(1)) }

InitSM ==
    /\ cfg \in SMConfigs
    /\ InitStrategy

\* what steps 5 and 6 yield for the synthetic z_score z
Synthetic(z, l) ==
    [Untouched(state_mean, state_cov, state_finite, l.position)
        EXCEPT !.signal = l.signal, !.has_S = TRUE, !.has_z = TRUE,
               !.z_score = z, !.S = Rat(1)]

SyntheticStep(d, l) ==
    /\ position' = l.position
    /\ Observe("synthetic", NoTick, Synthetic(ZScore(d, Rat(1)), l))
    /\ hist' = Append(hist, [z |-> d, position |-> l.position,
                             signal |-> l.signal.signal_type])

\* steps 5 and 6 of on_tick with z_score = d (error = d, S = 1)
SyntheticTick ==
    /\ Len(hist) < MaxDeviations
    /\ \E d \in Deviations :
          SyntheticStep(d, LogicExecution(cfg, position, ZScore(d, Rat(1)),
                                          state_mean[2], Rat(0), d))
    /\ n_ticks' = n_ticks + 1
    /\ UNCHANGED <<cfg, state_mean, state_cov, state_finite, driver_vars>>

NextSM == SyntheticTick

SpecSM == InitSM /\ [][NextSM]_vars

----------------------------------------------------------------------------
(* The risk gate and the order router called directly *)

GateKinds == {"ENTRY_LONG_SPREAD", "EXIT_ALL", "EXIT", "LONG_SPREAD", "UNKNOWN"}

GateStrings == {"HOLD", "LONG_SPREAD", "SHORT_SPREAD", "EXIT", "UNKNOWN"}

\* a signal of kind k with no order, two market orders, or a limit and a market order
GateObjects ==
    UNION { { StrategySignal(k),
              add_order(add_order(StrategySignal(k), y_key, "BUY", 10, "MKT"),
                        x_key, "SELL", 15, "MKT"),
              add_order(add_order(StrategySignal(k), y_key, "SELL", 10, "LMT"),
                        x_key, "BUY", 0, "MKT") } : k \in GateKinds }

GateSignals == {None} \cup { Str(t) : t \in GateStrings } \cup GateObjects

InitGateSpec ==
    /\ cfg = DefaultThresholds
    /\ InitStrategy

\* self.risk.check(signal)
RiskCheck ==
    /\ \E signal \in GateSignals :
          gate' = [op |-> "check", signal |-> signal, result |-> check(signal),
                   sent |-> <<>>, pre_placed |-> placed]
    /\ UNCHANGED <<cfg, strategy_vars, n_ticks, hist, dm_data, placed, live, clock,
                   backtest_vars, loop_vars>>

\* self.executor.execute_signal(signal)
ExecuteSignal ==
    /\ Len(placed) < MaxPlaced
    /\ \E signal \in {None} \cup GateObjects :
          /\ placed' = placed \o execute_signal(signal)
          /\ gate' = [op |-> "execute", signal |-> signal, result |-> FALSE,
                      sent |-> execute_signal(signal), pre_placed |-> placed]
    /\ UNCHANGED <<cfg, strategy_vars, n_ticks, hist, dm_data, live, clock,
                   backtest_vars, loop_vars>>

NextGate == RiskCheck \/ ExecuteSignal

SpecGate == InitGateSpec /\ [][NextGate]_vars

----------------------------------------------------------------------------
(* The live driver *)

LiveTickers ==
    { Ticker(1, "num", y) : y \in YPrices }
    \cup { Ticker(2, "num", x) : x \in XPrices }
    \cup { Ticker(1, "nan", Rat(0)), Ticker(2, "none", Rat(0)),
           Ticker(2, "num", Rat(-1)), Ticker(99, "num", Rat(1)) }

\* what one pendingTickersEvent delivers
Batches ==
    { <<t>> : t \in LiveTickers }
    \cup { <<Ticker(1, "num", y), Ticker(2, "num", x)>> : y \in YPrices, x \in XPrices }
    \cup { <<Ticker(1, "nan", Rat(0)), Ticker(2, "num", Rat(1))>> }

InitLiveSpec ==
    /\ cfg = DefaultThresholds
    /\ InitStrategy

Rejected(l) == l.checked /\ ~l.check_result

\* lines 102-103: return before the strategy is invoked
EngineReturn(ing) ==
    /\ live' = [InitLive EXCEPT !.called = TRUE, !.has_new_data = ing.has_updates,
                                !.ready = is_ready(ing.data),
                                !.prev_rejected = Rejected(live)]
    /\ UNCHANGED <<strategy_vars, placed, clock>>

\* lines 106-121, but a signal the risk gate rejects also undoes the position
EnginePipeline_RollbackOnReject(prices, r, x) ==
    /\ Assign(IF x.checked /\ ~x.check_result THEN [r EXCEPT !.position = position]
              ELSE r)
    /\ Observe("on_tick", prices, r)
    /\ placed' = placed \o x.sent
    /\ clock' = Sleep(clock, x)
    /\ live' = [called |-> TRUE, has_new_data |-> TRUE, ready |-> TRUE,
                strategy_called |-> TRUE, signal |-> r.signal,
                logged |-> Telemetry(r.signal),
                log_prices |-> IF Telemetry(r.signal) THEN prices ELSE NoTick,
                log_meta |-> IF Telemetry(r.signal) THEN r.signal.meta ELSE NoMeta,
                checked |-> x.checked, check_result |-> x.check_result,
                executed |-> x.executed, sent |-> x.sent,
                prev_rejected |-> Rejected(live)]

\* lines 106-121: r is what self.strategy.on_tick(prices) yields
EnginePipeline(prices, r, x) ==
    /\ Assign(r)
    /\ Observe("on_tick", prices, r)
    /\ placed' = placed \o x.sent
    /\ clock' = Sleep(clock, x)
    /\ live' = [called |-> TRUE, has_new_data |-> TRUE, ready |-> TRUE,
                strategy_called |-> TRUE, signal |-> r.signal,
                logged |-> Telemetry(r.signal),
                log_prices |-> IF Telemetry(r.signal) THEN prices ELSE NoTick,
                log_meta |-> IF Telemetry(r.signal) THEN r.signal.meta ELSE NoMeta,
                checked |-> x.checked, check_result |-> x.check_result,
                executed |-> x.executed, sent |-> x.sent,
                prev_rejected |-> Rejected(live)]

EngineStrategy(prices, r) == EnginePipeline(prices, r, RiskAndExecution(r.signal))

\* TradingEngine.on_tick after self.data_manager.on_tick(tickers) yielded ing
EngineOnTick(ing) ==
    /\ dm_data' = ing.data
    /\ IF ~ing.has_updates \/ ~is_ready(ing.data)
       THEN EngineReturn(ing)
       ELSE EngineStrategy(get_latest_prices(ing.data),
                           on_tick(cfg, state_mean, state_cov, state_finite, position,
                                   get_latest_prices(ing.data)))

\* TradingEngine.on_tick(tickers)
TradingEngine_on_tick ==
    /\ n_ticks < MaxLiveTicks
    /\ \E tickers \in Batches : EngineOnTick(DataManager_on_tick(dm_data, tickers))
    /\ n_ticks' = n_ticks + 1
    /\ UNCHANGED <<cfg, hist, gate, backtest_vars, loop_vars>>

NextLive == TradingEngine_on_tick

SpecLive == InitLiveSpec /\ [][NextLive]_vars

----------------------------------------------------------------------------
(* The price table on its own: DataManager.on_tick called with any batches *)

\* what one call of DataManager.on_tick(tickers) leaves behind
DataCall(tickers, ing) ==
    /\ dm_data' = ing.data
    /\ feed' = [op |-> "on_tick", tickers |-> tickers, pre_data |-> dm_data,
                pre_ready |-> is_ready(dm_data), has_updates |-> ing.has_updates]

DataTick ==
    /\ n_ticks < MaxLiveTicks
    /\ \E tickers \in Batches : DataCall(tickers, DataManager_on_tick(dm_data, tickers))
    /\ n_ticks' = n_ticks + 1
    /\ UNCHANGED <<cfg, strategy_vars, hist, placed, gate, live, clock,
                   backtest_vars, loop>>

NextData == DataTick

SpecData == InitLiveSpec /\ [][NextData]_vars

----------------------------------------------------------------------------
(* The live driver on a clock, with any strategy plugged in *)

\* what the plugged strategy may return at line 109: nothing, a
\* StrategySignal, or an object that compares equal to an allowed string
PluggedSignals ==
    { None,
      EntryLongSignal(DefaultThresholds, 15),
      add_order(add_order(Str("EXIT"), y_key, "SELL", 10, "MKT"), x_key, "BUY", 15, "MKT"),
      add_order(Str("LONG_SPREAD"), y_key, "BUY", 10, "MKT") }

PluggedBatches ==
    { <<Ticker(1, "num", Rat(1)), Ticker(2, "num", Rat(1))>>,
      <<Ticker(1, "num", Rat(7))>>, <<Ticker(2, "nan", Rat(0))>> }

\* what on_tick of the plugged strategy yields: signal, and no Kalman state
Plugged(signal) ==
    [Untouched(state_mean, state_cov, state_finite, position) EXCEPT !.signal = signal]

\* TradingEngine.on_tick, the strategy returning signal when it is invoked
PluggedOnTick(ing, signal) ==
    /\ dm_data' = ing.data
    /\ IF ~ing.has_updates \/ ~is_ready(ing.data)
       THEN EngineReturn(ing)
       ELSE EngineStrategy(get_latest_prices(ing.data), Plugged(signal))

PluggedTick ==
    /\ n_ticks < MaxLiveTicks
    /\ \E tickers \in PluggedBatches, signal \in PluggedSignals :
          PluggedOnTick(DataManager_on_tick(dm_data, tickers), signal)
    /\ n_ticks' = n_ticks + 1
    /\ UNCHANGED <<cfg, hist, gate, backtest_vars, loop_vars>>

\* time passes between two callbacks of the event loop
Elapse ==
    /\ clock.now < MaxClock
    /\ \E seconds \in {20, 60} : clock' = [clock EXCEPT !.now = @ + seconds]
    /\ UNCHANGED <<cfg, strategy_vars, n_ticks, hist, dm_data, placed, gate, live,
                   backtest_vars, loop_vars>>

NextCooldown == PluggedTick \/ Elapse

SpecCooldown == InitLiveSpec /\ [][NextCooldown]_vars

----------------------------------------------------------------------------
(* The event loop of the live driver: callbacks are dispatched one at a time *)

\* tickers the feed delivers while the loop is busy or idle
LoopTickers == { Ticker(1, "num", Rat(1)), Ticker(1, "num", Rat(7)), Ticker(2, "num", Rat(2)) }

\* a pending ticker of the same contract is replaced, a new one is added
RECURSIVE Pending(_, _)
Pending(pending, t) ==
    IF pending = <<>> THEN <<t>>
    ELSE IF Head(pending).conId = t.conId THEN <<t>> \o Tail(pending)
    ELSE <<Head(pending)>> \o Pending(Tail(pending), t)

\* ib.run() on several threads: a callback starts whatever is in progress
CanDispatch_Threaded(l) == TRUE

\* ib.run() (line 97) is one thread: on_tick is a plain function and
\* time.sleep blocks the loop, so the next callback starts when this one returned
CanDispatch(l) == l.active = 0

\* the loop after a callback has started: it is in progress until its sleep ends
Dispatched(l, x, d, p) ==
    [pc |-> IF x.executed THEN "sleeping" ELSE l.pc,
     pending |-> <<>>,
     active |-> l.active + (IF x.executed THEN 1 ELSE 0),
     snap_data |-> IF x.executed THEN d ELSE l.snap_data,
     snap_placed |-> IF x.executed THEN p ELSE l.snap_placed]

\* a ticker update arrives from the feed and waits for the loop
Arrive ==
    /\ \E t \in LoopTickers : loop' = [loop EXCEPT !.pending = Pending(@, t)]
    /\ loop'.pending # loop.pending
    /\ UNCHANGED <<cfg, strategy_vars, n_ticks, hist, dm_data, placed, gate, live,
                   clock, backtest_vars, feed>>

\* pendingTickersEvent fires: TradingEngine.on_tick runs on the pending tickers
Dispatch ==
    /\ CanDispatch(loop)
    /\ loop.pending # <<>>
    /\ n_ticks < MaxLiveTicks
    /\ \E signal \in PluggedSignals :
          PluggedOnTick(DataManager_on_tick(dm_data, loop.pending), signal)
    /\ loop' = Dispatched(loop, live', dm_data', placed')
    /\ n_ticks' = n_ticks + 1
    /\ UNCHANGED <<cfg, hist, gate, backtest_vars, feed>>

\* time.sleep(60) ends and on_tick returns
Wake ==
    /\ loop.pc = "sleeping"
    /\ loop' = [loop EXCEPT !.pc = "idle", !.active = @ - 1]
    /\ UNCHANGED <<cfg, strategy_vars, n_ticks, hist, dm_data, placed, gate, live,
                   clock, backtest_vars, feed>>

NextSerial == Arrive \/ Dispatch \/ Wake

SpecSerial == InitLiveSpec /\ [][NextSerial]_vars

----------------------------------------------------------------------------
(* The historical driver, and the live driver fed the replayed timeline *)

Times == 1..MaxTime

\* the close series a symbol can hold: some timestamps, a price at each
SeriesOf(prices) == UNION { [S -> prices] : S \in SUBSET Times }

\* the closes stored for leg 2
StoredXPrices == {Rat(2)}

\* the libraries: each instrument's symbol is stored or not
Stores ==
    UNION { { [key \in D |-> IF key = y_key THEN sy ELSE sx] :
                 sy \in SeriesOf(YPrices), sx \in SeriesOf(StoredXPrices) } :
            D \in SUBSET {y_key, x_key} }

\* the calendar bounds handed to run
DateRanges == {<<1, MaxTime>>, <<2, MaxTime>>, <<1, MaxTime - 1>>}

InitBacktestSpec ==
    /\ cfg \in BacktestConfigs
    /\ state_mean = InitStateMean
    /\ state_cov = InitStateCov
    /\ state_finite = TRUE
    /\ position = InitPosition
    /\ n_ticks = 0
    /\ last = InitLast
    /\ entry_signal = None
    /\ hist = <<>>
    /\ dm_data = NoTick
    /\ placed = <<>>
    /\ gate = InitGate
    /\ live = InitLive
    /\ clock = InitClock
    /\ store \in Stores
    /\ bt = InitBacktest
    /\ loop = InitLoop
    /\ feed = InitFeed

\* BacktestEngine(...).run(start_date, end_date)
BacktestRun ==
    /\ bt.outcome = "not run"
    /\ \E dates \in DateRanges : bt' = run(cfg, bt, store, dates[1], dates[2])
    /\ UNCHANGED <<cfg, strategy_vars, n_ticks, hist, dm_data, placed, gate, live,
                   clock, store, loop_vars>>

\* the tickers that carry one row of the timeline to the live driver
RowTickers(vals) == <<Ticker(1, "num", vals[y_key]), Ticker(2, "num", vals[x_key])>>

\* TradingEngine.on_tick fed the next row of the replayed timeline
LiveFeed ==
    /\ bt.outcome = "return DataFrame"
    /\ n_ticks < Len(bt.universe)
    /\ EngineOnTick(DataManager_on_tick(dm_data,
                                        RowTickers(bt.universe[n_ticks + 1].vals)))
    /\ hist' = Append(hist, [time |-> bt.universe[n_ticks + 1].time,
                             called |-> live'.strategy_called,
                             signal |-> live'.signal])
    /\ n_ticks' = n_ticks + 1
    /\ UNCHANGED <<cfg, gate, backtest_vars, loop_vars>>

NextBacktest == BacktestRun \/ LiveFeed

SpecBacktest == InitBacktestSpec /\ [][NextBacktest]_vars

----------------------------------------------------------------------------
(* Claims about the entry/exit logic and the filter *)

Called == last.op = "on_tick"

Missing(data) == y_key \notin DOMAIN data \/ x_key \notin DOMAIN data

Opposite(action) == IF action = "BUY" THEN "SELL" ELSE "BUY"

Sides(signal) == [i \in 1..Len(signal.orders) |-> signal.orders[i].action]

Legs(signal) == [i \in 1..Len(signal.orders) |-> signal.orders[i].contract]

HystSeq == <<Dev(0), Dev(1), Dev(25), Dev(10), Dev(3)>>

HistZ == [i \in 1..Len(hist) |-> hist[i].z]

PreOf(i) == IF i = 1 THEN InitPosition ELSE hist[i - 1].position

\* C1: entry/exit hysteresis. A held position is kept on every tick whose
\* |deviation| is >= exit_threshold and closed on the first tick whose
\* |deviation| is < exit_threshold; with thresholds 2.0 / 0.5 the deviations
\* [0, 0.1, 2.5, 1.0, 0.3] from FLAT give [FLAT, FLAT, SHORT, SHORT, FLAT] with
\* exactly two emissions, at index 2 and index 4 (counted from 0).
C1_Hysteresis ==
    /\ \A i \in 1..Len(hist) :
          PreOf(i) # 0 =>
             IF RLt(RAbs(hist[i].z), cfg.exit_threshold)
             THEN hist[i].position = 0 /\ hist[i].signal = "EXIT_ALL"
             ELSE hist[i].position = PreOf(i) /\ hist[i].signal = "None"
    /\ (cfg = DefaultThresholds /\ HistZ = HystSeq) =>
          /\ [i \in 1..Len(hist) |-> hist[i].position] = <<0, 0, -1, -1, 0>>
          /\ {i \in 1..Len(hist) : hist[i].signal # "None"} = {3, 5}
          /\ hist[3].signal = "ENTRY_SHORT_SPREAD"
          /\ hist[5].signal = "EXIT_ALL"

C1_Witness == cfg = DefaultThresholds /\ HistZ = HystSeq

\* C2: from FLAT a deviation below -entry_threshold enters LONG_SPREAD with
\* the orders [BUY leg_1 qty=base, SELL leg_2], and a deviation above
\* +entry_threshold enters SHORT_SPREAD with [SELL leg_1 qty=base, BUY leg_2].
C2_EntryDirection ==
    (Called /\ last.has_z /\ last.pre_position = 0) =>
       /\ ZLt(last.z_score, RNeg(cfg.entry_threshold)) =>
             /\ position = 1
             /\ Legs(last.signal) = <<y_key, x_key>>
             /\ Sides(last.signal) = <<"BUY", "SELL">>
             /\ last.signal.orders[1].qty = cfg.qty
       /\ ZGt(last.z_score, cfg.entry_threshold) =>
             /\ position = -1
             /\ Legs(last.signal) = <<y_key, x_key>>
             /\ Sides(last.signal) = <<"SELL", "BUY">>
             /\ last.signal.orders[1].qty = cfg.qty

C2_Witness ==
    /\ Called /\ last.has_z /\ last.pre_position = 0
    /\ ZLt(last.z_score, RNeg(cfg.entry_threshold))
    /\ position = 1

\* C3: the position is always one of FLAT, LONG_SPREAD, SHORT_SPREAD, and a
\* tick never takes it from LONG_SPREAD to SHORT_SPREAD or back: it changes
\* only between FLAT and a spread position.
C3_OnePositionNoReversal ==
    /\ position \in {0, 1, -1}
    /\ Called => \/ position = last.pre_position
                 \/ last.pre_position = 0
                 \/ position = 0

C3_Witness == Called /\ last.pre_position = -1 /\ position = 0

C5_ExitReversesEntry ==
    (Called /\ last.pre_position # 0 /\ last.signal # None) =>
       /\ position = 0
       /\ last.signal.signal_type = "EXIT_ALL"
       /\ Legs(last.signal) = Legs(last.pre_entry)
       /\ \A i \in 1..2 :
             last.signal.orders[i].action = Opposite(last.pre_entry.orders[i].action)
       /\ Sides(last.signal) =
             IF last.pre_position = 1 THEN <<"SELL", "BUY">> ELSE <<"BUY", "SELL">>
       /\ last.signal.orders[1].qty = cfg.qty

C5_Witness == Called /\ last.pre_position = 1 /\ position = 0 /\ last.signal # None

C7_DegenerateRejected ==
    (Called /\ last.has_S /\ RLe(last.S, Rat(0))) =>
       /\ last.signal = None
       /\ position = last.pre_position
       /\ state_mean = last.pre_mean
       /\ state_cov = last.pre_cov
       /\ state_finite = last.pre_finite

\* C8: RiskManager.check returns False for None and for every signal whose
\* decision kind is not in the allow-list, whatever its orders; a signal that
\* is None or has no order never reaches placeOrder.
C8_RiskGateBoundary ==
    /\ gate.op = "check" =>
          /\ gate.signal = None => ~gate.result
          /\ gate.signal.signal_type \notin {"LONG_SPREAD", "SHORT_SPREAD", "EXIT"}
                => ~gate.result
    /\ (gate.op = "execute" /\ (gate.signal = None \/ Len(gate.signal.orders) = 0)) =>
          /\ gate.sent = <<>>
          /\ placed = gate.pre_placed

C8_Witness ==
    /\ gate.op = "check"
    /\ gate.signal.py_type = "StrategySignal"
    /\ gate.signal.signal_type = "UNKNOWN"
    /\ Len(gate.signal.orders) = 2
    /\ ~gate.result

\* C9: in the live driver execute_signal is called only after the strategy
\* returned a signal on that tick and RiskManager.check returned True for it;
\* a signal that fails the check is dropped (nothing is placed) and the next
\* tick is processed as any other.
C9_PipelineOrder ==
    /\ live.executed =>
          /\ live.strategy_called
          /\ live.signal # None
          /\ live.checked /\ live.check_result
    /\ live.sent # <<>> => live.executed
    /\ Rejected(live) => (~live.executed /\ live.sent = <<>>)
    /\ (live.called /\ live.prev_rejected) =>
          (live.strategy_called <=> (live.has_new_data /\ live.ready))

C9_Witness ==
    /\ live.called /\ live.prev_rejected
    /\ live.strategy_called
    /\ last.pre_position # 0

\* C10: no tick is processed by a strategy whose exit_threshold is >= its
\* entry_threshold (construction is refused).
C10_ThresholdsValidated ==
    Called => RLt(cfg.exit_threshold, cfg.entry_threshold)

----------------------------------------------------------------------------
(* Claims about the two drivers *)

\* the emissions of a per-tick log: position in the series and signal
Emissions(log) ==
    SelectSeq([i \in 1..Len(log) |-> [tick |-> i, time |-> log[i].time,
                                      signal |-> log[i].signal]],
              LAMBDA e : e.signal # None)

LoadedSeries(key) ==
    [t \in {u \in DOMAIN store[key] : bt.start_date <= u /\ u <= bt.end_date}
        |-> store[key][t]]

\* the timestamps present in any instrument's loaded series
AnyTimes == UNION { DOMAIN LoadedSeries(key) : key \in DOMAIN store }

\* the timestamps at which every instrument has had a value
KnownTimes ==
    { t \in AnyTimes :
         \A key \in DOMAIN store : \E u \in DOMAIN LoadedSeries(key) : u <= t }

\* the most recent timestamp of the key's series at or before t
MostRecent(key, t) ==
    CHOOSE u \in DOMAIN LoadedSeries(key) :
       /\ u <= t
       /\ \A v \in DOMAIN LoadedSeries(key) : v <= t => v <= u

\* C12: the timeline replayed by BacktestEngine.run has a row for every
\* timestamp of any instrument's series except the leading ones at which some
\* instrument has had no value yet; every price of a row is the instrument's
\* most recent value at or before the row's timestamp; the rows reach
\* strategy.on_tick one at a time in ascending timestamp order.
C12_TimelineAlignment ==
    bt.outcome = "return DataFrame" =>
       /\ { bt.universe[i].time : i \in 1..Len(bt.universe) } = KnownTimes
       /\ Len(bt.universe) = Cardinality(KnownTimes)
       /\ \A i \in 1..Len(bt.universe) :
             /\ DOMAIN bt.universe[i].vals = DOMAIN instruments
             /\ \A key \in DOMAIN instruments :
                   bt.universe[i].vals[key] =
                      LoadedSeries(key)[MostRecent(key, bt.universe[i].time)]
       /\ Len(bt.trace) = Len(bt.universe)
       /\ \A i \in 1..Len(bt.trace) :
             /\ bt.trace[i].time = bt.universe[i].time
             /\ bt.trace[i].row = bt.universe[i].vals
       /\ \A i \in 1..Len(bt.trace), k \in 1..Len(bt.trace) :
             i < k => bt.trace[i].time < bt.trace[k].time

\* a run over series with a leading gap and a gap that is forward-filled
C12_Witness ==
    /\ bt.outcome = "return DataFrame"
    /\ Len(bt.universe) = 2
    /\ AnyTimes = {1, 2, 3}
    /\ DOMAIN LoadedSeries(y_key) = {1, 3}
    /\ DOMAIN LoadedSeries(x_key) = {2}
    /\ LoadedSeries(y_key)[1] # LoadedSeries(y_key)[3]

\* C13: when a required instrument's data is entirely missing (load finds no
\* symbol, or the aligned universe is empty) the run ends in a fatal
\* configuration error, not in a normal return with a missing result.
C13_MissingDataIsFatal ==
    (bt.outcome # "not run"
       /\ (DOMAIN store # DOMAIN instruments \/ KnownTimes = {}))
    => bt.outcome = "raise ConfigurationError"

AllKnown(d) ==
    \A key \in DOMAIN instruments : key \in DOMAIN d /\ RLt(Rat(0), d[key])

\* C15: readiness filter. TradingEngine.on_tick invokes strategy.on_tick only
\* when every required instrument has a known, positive price in the price
\* table; while a required price is unknown the strategy has not been invoked
\* and the estimator state and the position are those of construction.
C15_ReadinessFilter ==
    /\ live.strategy_called =>
          /\ AllKnown(dm_data)
          /\ last.op = "on_tick" /\ last.data = dm_data
    /\ ~AllKnown(dm_data) =>
          /\ ~live.strategy_called
          /\ last.op = "none"
          /\ state_mean = InitStateMean
          /\ state_cov = InitStateCov
          /\ position = InitPosition

C15_Witness ==
    /\ live.called /\ live.has_new_data
    /\ DOMAIN dm_data = {y_key}
    /\ ~live.strategy_called
    /\ n_ticks >= 2

----------------------------------------------------------------------------
(* Claims about the estimator and the orders *)

Symmetric(P) == P[1][2] = P[2][1]

\* a symmetric 2x2 matrix is positive-semi-definite when its diagonal and its
\* determinant are >= 0
PositiveSemiDefinite(P) ==
    /\ RLe(Rat(0), P[1][1])
    /\ RLe(Rat(0), P[2][2])
    /\ RLe(RMul(P[1][2], P[2][1]), RMul(P[1][1], P[2][2]))

\* process noise and measurement noise as the configuration surface allows
ValidNoise(c) == RLt(Rat(0), c.delta) /\ RLt(Rat(0), c.R)

C17_ExitUsesCurrentHedge ==
    (Called /\ last.pre_position # 0 /\ last.signal # None) =>
       /\ last.signal.meta.beta = state_mean[2]
       /\ last.signal.orders[2].qty = hedge_qty(cfg, state_mean[2])

C17_Witness ==
    /\ Called /\ last.pre_position # 0 /\ last.signal # None
    /\ last.signal.orders[2].qty # last.pre_entry.orders[2].qty
    /\ last.signal.orders[2].qty = hedge_qty(cfg, state_mean[2])

\* leg_1 at base_quantity and the hedge leg at quantity 0
ZeroHedgeOrders(signal) ==
    /\ signal # None
    /\ Len(signal.orders) = 2
    /\ signal.orders[1].contract = y_key /\ signal.orders[1].qty = cfg.qty
    /\ signal.orders[2].contract = x_key /\ signal.orders[2].qty = 0

\* C18: a hedge ratio of exactly 0 does not suppress the signal. When an
\* entry or exit condition holds on such a tick the signal is emitted with
\* leg_1 at base_quantity and the hedge leg at quantity 0, and the position
\* changes as in the transition table.
C18_ZeroHedgeStillEmits ==
    (last.op = "synthetic" /\ state_mean[2] = Rat(0)) =>
       /\ (last.pre_position = 0 /\ ZLt(last.z_score, RNeg(cfg.entry_threshold))) =>
             (ZeroHedgeOrders(last.signal) /\ position = 1)
       /\ (last.pre_position = 0 /\ ZGt(last.z_score, cfg.entry_threshold)) =>
             (ZeroHedgeOrders(last.signal) /\ position = -1)
       /\ (last.pre_position # 0 /\ ZAbsLt(last.z_score, cfg.exit_threshold)) =>
             (ZeroHedgeOrders(last.signal) /\ position = 0)
       /\ last.signal # None => last.signal.meta.beta = Rat(0)

C18_Witness ==
    /\ last.op = "synthetic" /\ state_mean[2] = Rat(0)
    /\ last.pre_position = 1 /\ position = 0
    /\ ZeroHedgeOrders(last.signal)
    /\ last.signal.meta.beta = Rat(0)

\* C19: every order of every emitted signal has a side that is BUY or SELL
\* and a quantity that is a positive integer, for every reachable hedge ratio
\* and base_quantity > 0.
C19_OrdersPositive ==
    (Called /\ last.signal # None /\ cfg.qty > 0) =>
       \A i \in 1..Len(last.signal.orders) :
          /\ last.signal.orders[i].action \in {"BUY", "SELL"}
          /\ last.signal.orders[i].qty \in Nat \ {0}

\* C20: on every tick on which the estimator is updated in the live driver,
\* SystemMonitor.log_tick receives the latest prices and that tick's
\* metadata, whether or not a signal is emitted on that tick.
C20_EveryUpdateLogged ==
    (live.strategy_called /\ last.has_S) =>
       /\ live.logged
       /\ live.log_prices = dm_data

\* C21: on_tick returns a StrategySignal on every tick; when there is nothing
\* to do the signal has signal_type "HOLD" and no orders (never no value).
C21_AlwaysReturnsSignal ==
    Called =>
       /\ last.signal.py_type = "StrategySignal"
       /\ position = last.pre_position =>
             (last.signal.signal_type = "HOLD" /\ last.signal.orders = <<>>)

C23_InitialStateAndLifecycle ==
    /\ last.op = "none" =>
          /\ state_mean = <<Rat(0), Rat(0)>>
          /\ state_cov[1][2] = Rat(0) /\ state_cov[2][1] = Rat(0)
          /\ state_cov[1][1] = state_cov[2][2] /\ RLt(Rat(0), state_cov[1][1])
          /\ position = 0
    /\ (Called /\ ~Missing(last.data) /\ ValidNoise(cfg)) =>
          /\ state_cov # last.pre_cov
          /\ state_cov # InitStateCov

\* C24: the threshold comparisons are strict. From FLAT a deviation exactly
\* equal to +entry_threshold or -entry_threshold causes no entry and no
\* emission; in a held position a deviation with |deviation| exactly equal to
\* exit_threshold causes no exit and no emission.
C24_StrictThresholds ==
    \A i \in 1..Len(hist) :
       /\ (PreOf(i) = 0 /\ RAbs(hist[i].z) = cfg.entry_threshold) =>
             (hist[i].position = 0 /\ hist[i].signal = "None")
       /\ (PreOf(i) # 0 /\ RAbs(hist[i].z) = cfg.exit_threshold) =>
             (hist[i].position = PreOf(i) /\ hist[i].signal = "None")

C24_Witness ==
    /\ \E i \in 1..Len(hist) : PreOf(i) = 0 /\ hist[i].z = cfg.entry_threshold
    /\ \E i \in 1..Len(hist) : PreOf(i) = 0 /\ hist[i].z = RNeg(cfg.entry_threshold)
    /\ \E i \in 1..Len(hist) : PreOf(i) # 0 /\ RAbs(hist[i].z) = cfg.exit_threshold

\* base_quantity * |hedge_ratio| of an emitted signal
HedgeProduct(signal) == RMul(Rat(cfg.qty), RAbs(signal.meta.beta))

\* C25: in every entry and exit signal the leg_2 quantity is base_quantity
\* times |hedge_ratio| truncated toward zero: the largest integer not above
\* base_quantity * |hedge_ratio|; it is never negative and is the same for
\* hedge_ratio and -hedge_ratio.
C25_HedgeTruncation ==
    (Called /\ last.signal # None) =>
       /\ last.signal.orders[2].qty \in Nat
       /\ RLe(Rat(last.signal.orders[2].qty), HedgeProduct(last.signal))
       /\ RLt(HedgeProduct(last.signal), Rat(last.signal.orders[2].qty + 1))
       /\ hedge_qty(cfg, RNeg(last.signal.meta.beta)) = last.signal.orders[2].qty
       /\ hedge_qty(cfg, RAbs(last.signal.meta.beta)) = last.signal.orders[2].qty

\* an emission with a negative slope whose product has a fractional part of
\* at least one half
C25_Witness ==
    /\ Called /\ last.signal # None
    /\ RLe(Rat(last.signal.orders[2].qty + 1),
           RAdd(HedgeProduct(last.signal), <<1, 2>>))
    /\ last.signal.orders[2].qty > 0
    /\ last.signal.meta.beta[1] < 0

\* the records the claim expects for one replayed tick: one per order of the
\* signal emitted on it, in the signal's order sequence
TickRecords(tick) ==
    [i \in 1..Len(tick.signal.orders) |->
        [time |-> tick.time, signal |-> tick.signal.signal_type,
         asset |-> tick.signal.orders[i].contract,
         action |-> tick.signal.orders[i].action,
         qty |-> tick.signal.orders[i].qty,
         price |-> tick.row[tick.signal.orders[i].contract]]]

RECURSIVE ExpectedLog(_)
ExpectedLog(trace) ==
    IF trace = <<>> THEN <<>>
    ELSE TickRecords(Head(trace)) \o ExpectedLog(Tail(trace))

\* the result log without the metadata column
LoggedFields(results) ==
    [i \in 1..Len(results) |->
        [time |-> results[i].time, signal |-> results[i].signal,
         asset |-> results[i].asset, action |-> results[i].action,
         qty |-> results[i].qty, price |-> results[i].price]]

\* C26: BacktestEngine.run never routes to execution; for every signal the
\* strategy emits it appends exactly one record per order, in tick order and
\* within a tick in the signal's order sequence, each with that tick's
\* timestamp, the decision kind, the order's side and quantity and the price
\* of the order's instrument on that tick.
C26_BacktestResultLog ==
    /\ bt.outcome = "return DataFrame" =>
          LoggedFields(bt.results) = ExpectedLog(bt.trace)
    /\ bt.outcome # "return DataFrame" => bt.results = <<>>
    /\ n_ticks = 0 => placed = <<>>

C26_Witness ==
    /\ bt.outcome = "return DataFrame"
    /\ n_ticks = 0
    /\ Len(bt.results) = 4
    /\ bt.results[1].time < bt.results[3].time
    /\ bt.results[3].signal = "EXIT_ALL"
    /\ bt.results[1].price # bt.results[2].price

\* the position on_tick sets when it emits a signal of this kind
PositionSetBy(signal) ==
    IF signal.signal_type = "ENTRY_LONG_SPREAD" THEN 1
    ELSE IF signal.signal_type = "ENTRY_SHORT_SPREAD" THEN -1
    ELSE 0

C28_EmittedSignalsAdmitted ==
    (live.strategy_called /\ live.signal # None /\ live.signal.orders # <<>>) =>
       /\ live.checked /\ live.check_result
       /\ live.executed

\* a usable ticker: from a subscribed contract, a number, above zero
Usable(t) ==
    /\ t.conId \in {1, 2}
    /\ t.kind \notin {"none", "nan"}
    /\ t.price[1] > 0

AnyUsable(tickers) == \E i \in 1..Len(tickers) : Usable(tickers[i])

\* the last usable ticker of the batch for this key, 0 when there is none
LastUsable(tickers, key) ==
    LET idx == { i \in 1..Len(tickers) :
                   Usable(tickers[i]) /\ conid_to_key[tickers[i].conId] = key }
    IN IF idx = {} THEN 0 ELSE CHOOSE i \in idx : \A j \in idx : j <= i

\* C29: every price in the DataManager price table is a number above zero;
\* a batch without a usable ticker leaves the table unchanged; on_tick
\* returns True exactly when a price was stored; each key holds the latest
\* usable price; and is_ready() stays True once it has been True.
C29_PriceTableValid ==
    /\ \A k \in DOMAIN dm_data : dm_data[k][1] > 0 /\ dm_data[k][2] > 0
    /\ DOMAIN dm_data \subseteq DOMAIN instruments
    /\ feed.op = "on_tick" =>
          /\ feed.has_updates <=> AnyUsable(feed.tickers)
          /\ ~AnyUsable(feed.tickers) => dm_data = feed.pre_data
          /\ DOMAIN feed.pre_data \subseteq DOMAIN dm_data
          /\ \A k \in DOMAIN dm_data :
                IF LastUsable(feed.tickers, k) = 0
                THEN k \in DOMAIN feed.pre_data /\ dm_data[k] = feed.pre_data[k]
                ELSE dm_data[k] = feed.tickers[LastUsable(feed.tickers, k)].price
          /\ feed.pre_ready => is_ready(dm_data)

C29_Witness ==
    /\ feed.op = "on_tick" /\ feed.pre_ready
    /\ Len(feed.tickers) = 2
    /\ ~Usable(feed.tickers[1]) /\ Usable(feed.tickers[2])
    /\ feed.has_updates
    /\ dm_data # feed.pre_data
    /\ is_ready(dm_data)

====
